---- MODULE Spec2Model ----
(***************************************************************************)
(* Model of src/energymeter.py: the EnergyMeter session (constructor,     *)
(* close, read_data/send) talking to a Mercury 236 meter over a serial    *)
(* line.                                                                   *)
(*                                                                         *)
(* Representation of Python values.  A number is the record               *)
(*     [ty, hi, lo, den]   meaning   (hi * 2^16 + lo) / den,  0 <= lo < 2^16 *)
(* with ty = "int" or "float".  Two limbs are needed because the energy   *)
(* counters (up to 50 * (2^32 - 1)) exceed the 32-bit integers of TLC.    *)
(* A float is kept as the exact quotient of the expression that produced  *)
(* it: the rounding of IEEE binary64 (at most one unit in the last place  *)
(* of each operation) is not modelled.                                     *)
(* Strings that the code inspects character by character (parameter       *)
(* names, the parity argument) are sequences of one-character strings.    *)
(***************************************************************************)
EXTENDS Integers, Sequences, FiniteSets, TLC

VARIABLES
    ctor,      \* outcome of EnergyMeter(...): "none" (not called yet), "ok", "ConnectionError"
    args,      \* the arguments the constructor was called with
    serial,    \* calls made to serial.Serial(...): sequence of [parity, bytesize, stopbits]
    port,      \* self.port: "None", "open", "closed"
    snap,      \* the measurement fields self._energy_act ... self._cosf
    pc,        \* position of the caller inside read_data/send: "idle", "write", "sleep", "read"
    i,         \* index in req of the parameter being exchanged
    call,      \* state of the latest read_data call: "none", "running", "returned", "raised"
    wire,      \* bytes the meter has sent that have not reached the receive buffer yet
    inbuf,     \* the receive buffer of the port (port.in_waiting bytes)
    events,    \* number of times the line deviated from "silent meter, no I/O error"
    wlog,      \* frames handed to port.write during the latest read_data call
    pre,       \* the fields as they were when the latest read_data call began
    got,       \* per catalogue entry, what its exchange returned in the latest call
    decoded    \* catalogue entries that have been decoded at least once in the session

vars == <<ctor, args, serial, port, snap, pc, i, call, wire, inbuf, events,
          wlog, pre, got, decoded>>

\* How many times, in one session, the meter answers or the port raises.
MaxEvents == 1

----------------------------------------------------------------------------
\* Python helpers

Min(a, b) == IF a < b THEN a ELSE b

\* s[a:b] for 0 <= a <= b
Slice(s, a, b) == SubSeq(s, a + 1, Min(b, Len(s)))

UpperCase == <<"A","B","C","D","E","F","G","H","I","J","K","L","M",
               "N","O","P","Q","R","S","T","U","V","W","X","Y","Z">>
LowerCase == <<"a","b","c","d","e","f","g","h","i","j","k","l","m",
               "n","o","p","q","r","s","t","u","v","w","x","y","z">>

\* str.lower()
Lower(s) ==
    [k \in 1..Len(s) |->
        IF \E j \in 1..26 : UpperCase[j] = s[k]
        THEN LowerCase[CHOOSE j \in 1..26 : UpperCase[j] = s[k]]
        ELSE s[k]]

\* str.upper()
Upper(s) ==
    [k \in 1..Len(s) |->
        IF \E j \in 1..26 : LowerCase[j] = s[k]
        THEN UpperCase[CHOOSE j \in 1..26 : LowerCase[j] = s[k]]
        ELSE s[k]]

\* needle in hay
Contains(hay, needle) ==
    \E k \in 0..(Len(hay) - Len(needle)) :
        SubSeq(hay, k + 1, k + Len(needle)) = needle

\* int n as a number record
IntVal(n) == [ty |-> "int", hi |-> n \div 65536, lo |-> n % 65536, den |-> 1]

\* x * k for a Python int k > 0 (int * int is int, float * int is float)
Mul(x, k) ==
    LET p == x.lo * k
    IN  [x EXCEPT !.hi = x.hi * k + (p \div 65536), !.lo = p % 65536]

\* x / k: true division, always a float
TrueDiv(x, k) == [x EXCEPT !.ty = "float", !.den = x.den * k]

\* numerator of a number, when it fits 32 bits
Num(x) == x.hi * 65536 + x.lo

\* struct.unpack(">I", b)[0] for a 4-byte b
UnpackBE32(b) ==
    [ty |-> "int", hi |-> b[1] * 256 + b[2], lo |-> b[3] * 256 + b[4], den |-> 1]

\* struct.unpack("<h", b)[0] for a 2-byte b
UnpackLE16s(b) ==
    LET u == b[1] + 256 * b[2]
    IN  IntVal(IF u >= 32768 THEN u - 65536 ELSE u)

----------------------------------------------------------------------------
\* The command catalogue (EnergyMeter.req)

N_ID == <<"I","D">>
N_Admin == <<"A","d","m","i","n">>
N_Energy == <<"E","n","e","r","g","y">>
N_VoltageL1 == <<"V","o","l","t","a","g","e","L","1">>
N_VoltageL2 == <<"V","o","l","t","a","g","e","L","2">>
N_VoltageL3 == <<"V","o","l","t","a","g","e","L","3">>
N_TotalPowerActive == <<"T","o","t","a","l","P","o","w","e","r","A","c","t","i","v","e">>
N_PowerActiveL1 == <<"P","o","w","e","r","A","c","t","i","v","e","L","1">>
N_PowerActiveL2 == <<"P","o","w","e","r","A","c","t","i","v","e","L","2">>
N_PowerActiveL3 == <<"P","o","w","e","r","A","c","t","i","v","e","L","3">>
N_TotalPowerReactive == <<"T","o","t","a","l","P","o","w","e","r","R","e","a","c","t","i","v","e">>
N_PowerReactiveL1 == <<"P","o","w","e","r","R","e","a","c","t","i","v","e","L","1">>
N_PowerReactiveL2 == <<"P","o","w","e","r","R","e","a","c","t","i","v","e","L","2">>
N_PowerReactiveL3 == <<"P","o","w","e","r","R","e","a","c","t","i","v","e","L","3">>
N_TotalPowerSeem == <<"T","o","t","a","l","P","o","w","e","r","S","e","e","m">>
N_PowerSeemL1 == <<"P","o","w","e","r","S","e","e","m","L","1">>
N_PowerSeemL2 == <<"P","o","w","e","r","S","e","e","m","L","2">>
N_PowerSeemL3 == <<"P","o","w","e","r","S","e","e","m","L","3">>
N_CurrentL1 == <<"C","u","r","r","e","n","t","L","1">>
N_CurrentL2 == <<"C","u","r","r","e","n","t","L","2">>
N_CurrentL3 == <<"C","u","r","r","e","n","t","L","3">>
N_Frequency == <<"F","r","e","q","u","e","n","c","y">>
N_CosF == <<"C","o","s","F">>

req ==
  << [name |-> N_ID, frame |-> <<0,8,5,182,3>>],
     [name |-> N_Admin, frame |-> <<0,1,2,2,2,2,2,2,2,176,7>>],
     [name |-> N_Energy, frame |-> <<0,5,0,0,16,37>>],
     [name |-> N_VoltageL1, frame |-> <<0,8,17,17,77,186>>],
     [name |-> N_VoltageL2, frame |-> <<0,8,17,18,13,187>>],
     [name |-> N_VoltageL3, frame |-> <<0,8,17,19,204,123>>],
     [name |-> N_TotalPowerActive, frame |-> <<0,8,17,0,141,182>>],
     [name |-> N_PowerActiveL1, frame |-> <<0,8,17,1,76,118>>],
     [name |-> N_PowerActiveL2, frame |-> <<0,8,17,2,12,119>>],
     [name |-> N_PowerActiveL3, frame |-> <<0,8,17,3,205,183>>],
     [name |-> N_TotalPowerReactive, frame |-> <<0,8,17,4,140,117>>],
     [name |-> N_PowerReactiveL1, frame |-> <<0,8,17,5,77,181>>],
     [name |-> N_PowerReactiveL2, frame |-> <<0,8,17,6,13,180>>],
     [name |-> N_PowerReactiveL3, frame |-> <<0,8,17,7,204,116>>],
     [name |-> N_TotalPowerSeem, frame |-> <<0,8,17,8,140,112>>],
     [name |-> N_PowerSeemL1, frame |-> <<0,8,17,9,77,176>>],
     [name |-> N_PowerSeemL2, frame |-> <<0,8,17,10,13,177>>],
     [name |-> N_PowerSeemL3, frame |-> <<0,8,17,11,204,113>>],
     [name |-> N_CurrentL1, frame |-> <<0,8,17,33,77,174>>],
     [name |-> N_CurrentL2, frame |-> <<0,8,17,34,13,175>>],
     [name |-> N_CurrentL3, frame |-> <<0,8,17,35,204,111>>],
     [name |-> N_Frequency, frame |-> <<0,8,17,64,140,70>>],
     [name |-> N_CosF, frame |-> <<0,8,22,48,143,146>>] >>

Entries == 1..Len(req)

----------------------------------------------------------------------------
\* The measurement fields and their accessors

Fields ==
    {"_energy_act", "_energy_react",
     "_pwr_act", "_pwr_aL1", "_pwr_aL2", "_pwr_aL3",
     "_pwr_react", "_pwr_rL1", "_pwr_rL2", "_pwr_rL3",
     "_pwr_seem", "_pwr_sL1", "_pwr_sL2", "_pwr_sL3",
     "_voltageL1", "_voltageL2", "_voltageL3",
     "_currentL1", "_currentL2", "_currentL3",
     "_freq", "_cosf"}

\* a slip: the defaults are None instead of 0
FieldDefault_None == [ty |-> "NoneType", hi |-> 0, lo |-> 0, den |-> 1]

\* the class-level default of every field: _energy_act: float = 0, ...
FieldDefault == IntVal(0)

\* the read-only properties: property name -> the field it returns
property ==
    [energy_act |-> "_energy_act", energy_react |-> "_energy_react",
     pwr_act |-> "_pwr_act", pwr_aL1 |-> "_pwr_aL1", pwr_aL2 |-> "_pwr_aL2",
     pwr_aL3 |-> "_pwr_aL3", pwr_react |-> "_pwr_react", pwr_rL1 |-> "_pwr_rL1",
     pwr_rL2 |-> "_pwr_rL2", pwr_rL3 |-> "_pwr_rL3", pwr_seem |-> "_pwr_seem",
     pwr_sL1 |-> "_pwr_sL1", pwr_sL2 |-> "_pwr_sL2", pwr_sL3 |-> "_pwr_sL3",
     voltageL1 |-> "_voltageL1", voltageL2 |-> "_voltageL2",
     voltageL3 |-> "_voltageL3", currentL1 |-> "_currentL1",
     currentL2 |-> "_currentL2", currentL3 |-> "_currentL3",
     freq |-> "_freq", cosf |-> "_cosf"]

Properties == DOMAIN property

\* meter.<p> on a session whose fields are s
Get(s, p) == s[property[p]]

----------------------------------------------------------------------------
\* The constructor

\* serial.PARITY_NONE, PARITY_EVEN, PARITY_ODD are the strings 'N', 'E', 'O'
parity_map == (<<"N">> :> "N") @@ (<<"E">> :> "E") @@ (<<"O">> :> "O")

\* parity_map.get(parity.upper(), serial.PARITY_NONE)
_parse_parity(parity) ==
    IF Upper(parity) \in DOMAIN parity_map THEN parity_map[Upper(parity)] ELSE "N"

\* returns the value, or raises ValueError
_parse_bytesize(bytesize) ==
    IF bytesize \notin {5, 6, 7, 8}
    THEN [exc |-> "ValueError", val |-> 0]
    ELSE [exc |-> "none", val |-> bytesize]

\* a slip: the stop bits are converted without being checked
_parse_stopbits_Lenient(stopbits) == [exc |-> "none", val |-> stopbits]

\* returns float(stopbits), or raises ValueError
_parse_stopbits(stopbits) ==
    IF stopbits \notin {1, 2}
    THEN [exc |-> "ValueError", val |-> 0]
    ELSE [exc |-> "none", val |-> stopbits]

DefaultArgs == [parity |-> <<"N">>, bytesize |-> 8, stopbits |-> 1]
NoArgs == [parity |-> <<>>, bytesize |-> 0, stopbits |-> 0]

\* EnergyMeter(port, baudrate, parity, bytesize, stopbits, timeout).  The
\* arguments of serial.Serial(...) are evaluated before it is called; any
\* exception inside the try block becomes a ConnectionError.  opens tells
\* whether the operating system lets the device be opened.
Create(parity, bytesize, stopbits, opens) ==
    /\ ctor = "none"
    /\ args' = [parity |-> parity, bytesize |-> bytesize, stopbits |-> stopbits]
    /\ LET pp == _parse_parity(parity)
           pb == _parse_bytesize(bytesize)
           ps == _parse_stopbits(stopbits)
       IN  IF pb.exc # "none" \/ ps.exc # "none"
           THEN /\ ctor' = "ConnectionError"
                /\ UNCHANGED <<serial, port>>
           ELSE /\ serial' = Append(serial, [parity |-> pp, bytesize |-> pb.val,
                                             stopbits |-> ps.val])
                /\ IF opens
                   THEN ctor' = "ok" /\ port' = "open"
                   ELSE ctor' = "ConnectionError" /\ UNCHANGED port
    /\ UNCHANGED <<snap, pc, i, call, wire, inbuf, events, wlog, pre, got, decoded>>

\* close(): if self.port and self.port.is_open: self.port.close()
Close ==
    /\ ctor = "ok"
    /\ pc = "idle"
    /\ port = "open"
    /\ port' = "closed"
    /\ UNCHANGED <<ctor, args, serial, snap, pc, i, call, wire, inbuf, events,
                   wlog, pre, got, decoded>>

----------------------------------------------------------------------------
\* Decoding one response (the body of the loop of read_data)

\* a slip: the Energy length check is one byte short
MinLenEnergy_Short == 13 - 1

MinLenEnergy == 13
MinLenPower == 4
MinLenVoltage == 4
MinLenCurrent == 4
MinLenCosF == 4

\* a slip: the bytes are not swapped
SwapPairs_Identity(rb) == rb

\* rb[0], rb[1], rb[2], rb[3] = rb[1], rb[0], rb[3], rb[2]
SwapPairs(rb) == <<rb[2], rb[1], rb[4], rb[3]>>

\* if param == "Energy": ...   A bytearray slice is a copy, so the swap
\* leaves payload alone.  The tuple on the right of the swap is evaluated
\* before anything is stored, so a slice of fewer than 4 bytes raises
\* IndexError with the fields written so far kept.
EnergyBranch(s, payload) ==
    IF Len(payload) < MinLenEnergy
    THEN [snap |-> s, out |-> "short"]
    ELSE LET rbAct == Slice(payload, 1, 5)
         IN  IF Len(rbAct) < 4
             THEN [snap |-> s, out |-> "IndexError"]
             ELSE LET s1 == [s EXCEPT !["_energy_act"] =
                                   Mul(UnpackBE32(SwapPairs(rbAct)), 50)]
                      rbReact == Slice(payload, 9, 13)
                  IN  IF Len(rbReact) < 4
                      THEN [snap |-> s1, out |-> "IndexError"]
                      ELSE [snap |-> [s1 EXCEPT !["_energy_react"] =
                                          UnpackBE32(SwapPairs(rbReact))],
                            out |-> "ok"]

power_mapping ==
    (N_TotalPowerActive :> "_pwr_act") @@ (N_PowerActiveL1 :> "_pwr_aL1") @@
    (N_PowerActiveL2 :> "_pwr_aL2") @@ (N_PowerActiveL3 :> "_pwr_aL3") @@
    (N_TotalPowerReactive :> "_pwr_react") @@ (N_PowerReactiveL1 :> "_pwr_rL1") @@
    (N_PowerReactiveL2 :> "_pwr_rL2") @@ (N_PowerReactiveL3 :> "_pwr_rL3") @@
    (N_TotalPowerSeem :> "_pwr_seem") @@ (N_PowerSeemL1 :> "_pwr_sL1") @@
    (N_PowerSeemL2 :> "_pwr_sL2") @@ (N_PowerSeemL3 :> "_pwr_sL3")

\* a slip: TotalPowerReactive is mapped to the field of TotalPowerActive
PowerField_Slip(param) ==
    IF param = N_TotalPowerReactive THEN "_pwr_act" ELSE power_mapping[param]

\* power_mapping[param]
PowerField(param) == power_mapping[param]

\* a slip: every total is multiplied by 10
PowerFactor10_AllTotals(param) ==
    IF param \in {N_TotalPowerActive, N_TotalPowerReactive, N_TotalPowerSeem}
    THEN 10 ELSE 1

\* 10 if param == "TotalPowerActive" else 1
PowerFactor10(param) == IF param = N_TotalPowerActive THEN 10 ELSE 1

\* (struct.unpack("<h", payload[2:4])[0] / 100) * 50
PowerValue(raw) == Mul(TrueDiv(UnpackLE16s(raw), 100), 50)

\* elif "power" in param.lower(): ...
PowerBranch(s, param, payload) ==
    IF Len(payload) < MinLenPower
    THEN [snap |-> s, out |-> "short"]
    ELSE LET raw == Slice(payload, 2, 4)
         IN  IF Len(raw) # 2
             THEN [snap |-> s, out |-> "struct.error"]
             ELSE IF param \in DOMAIN power_mapping
                  THEN [snap |-> [s EXCEPT ![PowerField(param)] =
                                      Mul(PowerValue(raw), PowerFactor10(param))],
                        out |-> "ok"]
                  ELSE [snap |-> s, out |-> "ok"]

\* struct.unpack("<h", payload[2:4])[0] / 100
VoltageValue(raw) == TrueDiv(UnpackLE16s(raw), 100)

\* elif "voltage" in param.lower(): ...
VoltageBranch(s, param, payload) ==
    IF Len(payload) < MinLenVoltage
    THEN [snap |-> s, out |-> "short"]
    ELSE LET raw == Slice(payload, 2, 4)
         IN  IF Len(raw) # 2
             THEN [snap |-> s, out |-> "struct.error"]
             ELSE [snap |->
                     IF param = N_VoltageL1
                     THEN [s EXCEPT !["_voltageL1"] = VoltageValue(raw)]
                     ELSE IF param = N_VoltageL2
                     THEN [s EXCEPT !["_voltageL2"] = VoltageValue(raw)]
                     ELSE IF param = N_VoltageL3
                     THEN [s EXCEPT !["_voltageL3"] = VoltageValue(raw)]
                     ELSE s,
                   out |-> "ok"]

\* (struct.unpack("<h", payload[2:4])[0] / 1000) * 50
CurrentValue(raw) == Mul(TrueDiv(UnpackLE16s(raw), 1000), 50)

\* elif "current" in param.lower(): ...
CurrentBranch(s, param, payload) ==
    IF Len(payload) < MinLenCurrent
    THEN [snap |-> s, out |-> "short"]
    ELSE LET raw == Slice(payload, 2, 4)
         IN  IF Len(raw) # 2
             THEN [snap |-> s, out |-> "struct.error"]
             ELSE [snap |->
                     IF param = N_CurrentL1
                     THEN [s EXCEPT !["_currentL1"] = CurrentValue(raw)]
                     ELSE IF param = N_CurrentL2
                     THEN [s EXCEPT !["_currentL2"] = CurrentValue(raw)]
                     ELSE IF param = N_CurrentL3
                     THEN [s EXCEPT !["_currentL3"] = CurrentValue(raw)]
                     ELSE s,
                   out |-> "ok"]

\* a slip: the top two bits of b[0] are not masked off
CosFValue_NoMask(b) ==
    TrueDiv([ty |-> "int", hi |-> b[1], lo |-> b[3] * 256 + b[2], den |-> 1], 1000)

\* ((b[0] & 0x3F) << 16) | (b[2] << 8) | b[1], then / 1000.  The three
\* operands occupy disjoint bits (16..21, 8..15, 0..7), so the bitwise or is
\* their sum; x & 0x3F is x mod 64.
CosFValue(b) ==
    TrueDiv([ty |-> "int", hi |-> b[1] % 64, lo |-> b[3] * 256 + b[2], den |-> 1],
            1000)

\* elif "cosf" in param.lower(): ...
CosFBranch(s, payload) ==
    IF Len(payload) < MinLenCosF
    THEN [snap |-> s, out |-> "short"]
    ELSE LET b == Slice(payload, 1, 4)
         IN  IF Len(b) < 3
             THEN [snap |-> s, out |-> "IndexError"]
             ELSE [snap |-> [s EXCEPT !["_cosf"] = CosFValue(b)], out |-> "ok"]

\* The if/elif chain on the parameter name: which branch handles param.
Branch(param) ==
    IF param = N_Energy
    THEN "energy"
    ELSE IF Contains(Lower(param), <<"p","o","w","e","r">>)
    THEN "power"
    ELSE IF Contains(Lower(param), <<"v","o","l","t","a","g","e">>)
    THEN "voltage"
    ELSE IF Contains(Lower(param), <<"c","u","r","r","e","n","t">>)
    THEN "current"
    ELSE IF Contains(Lower(param), <<"c","o","s","f">>)
    THEN "cosf"
    ELSE "none"

\* Branch, tabulated once for the names of the catalogue
branch == [n \in {req[k].name : k \in Entries} |-> Branch(n)]

\* The loop body after send() returned payload: the fields afterwards and
\* how the iteration ended ("noreply", "short", "ok", or the exception that
\* the except clause caught).
Decode(s, param, payload) ==
    IF payload = <<>>
    THEN [snap |-> s, out |-> "noreply"]
    ELSE IF branch[param] = "energy"
    THEN EnergyBranch(s, payload)
    ELSE IF branch[param] = "power"
    THEN PowerBranch(s, param, payload)
    ELSE IF branch[param] = "voltage"
    THEN VoltageBranch(s, param, payload)
    ELSE IF branch[param] = "current"
    THEN CurrentBranch(s, param, payload)
    ELSE IF branch[param] = "cosf"
    THEN CosFBranch(s, payload)
    ELSE [snap |-> s, out |-> "ok"]

----------------------------------------------------------------------------
\* The serial line and the meter

EmptyBuf == [bytes |-> <<>>, src |-> {}]

\* nothing in flight; late: the bytes in flight missed the read of the
\* exchange that asked for them
EmptyWire == [bytes |-> <<>>, src |-> {}, late |-> FALSE]

\* a response of n bytes: all zero, or byte k (counted from 1) = 17 * k
Zeros(n) == [k \in 1..n |-> 0]
Ramp(n) == [k \in 1..n |-> (17 * k) % 256]

\* What the meter may answer to a request.  The code checks neither the
\* length nor the trailer of a response against the request, so every
\* response is offered for every request.
DeviceReplies == {Ramp(3), Zeros(4), Ramp(12), Ramp(13), Zeros(13)}

NotYet == [kind |-> "none", bytes |-> <<>>, src |-> {}, out |-> "none"]

----------------------------------------------------------------------------
\* read_data and send

\* send(): except serial.SerialException as e: raise ConnectionError(...)
SendRaises(e) == IF e = "SerialException" THEN "ConnectionError" ELSE e

\* a slip: the except clause names only the decoding errors
Caught_Narrow(e) == e \in {"IndexError", "struct.error"}

\* read_data(): except Exception as e: print(...); continue
\* Every exception the loop body can raise derives from Exception.
Caught(e) == e \in {"ConnectionError", "IndexError", "struct.error"}

\* a slip: the loop stops one entry early
Continue_SkipLast ==
    IF i < Len(req) - 1
    THEN i' = i + 1 /\ pc' = "write" /\ UNCHANGED call
    ELSE pc' = "idle" /\ call' = "returned" /\ UNCHANGED i

\* the for loop moves to the next entry, or read_data returns after the last
Continue ==
    IF i < Len(req)
    THEN i' = i + 1 /\ pc' = "write" /\ UNCHANGED call
    ELSE pc' = "idle" /\ call' = "returned" /\ UNCHANGED i

\* an exception leaves read_data
Propagate == pc' = "idle" /\ call' = "raised" /\ UNCHANGED i

\* an exception e was raised inside the try block of the loop body
Raised(e) == IF Caught(e) THEN Continue ELSE Propagate

\* meter.read_data() is called
StartPass ==
    /\ ctor = "ok"
    /\ pc = "idle"
    /\ call # "raised"
    /\ pc' = "write"
    /\ i' = 1
    /\ call' = "running"
    /\ wlog' = <<>>
    /\ pre' = snap
    /\ got' = [k \in Entries |-> NotYet]
    /\ UNCHANGED <<ctor, args, serial, port, snap, wire, inbuf, events, decoded>>

\* send(): self.port.write(cmd)
Write ==
    /\ pc = "write"
    /\ wlog' = Append(wlog, req[i].frame)
    /\ \/ /\ port # "open"               \* PortNotOpenError, a SerialException
          /\ got' = [got EXCEPT ![i].kind = "ioerr"]
          /\ Raised(SendRaises("SerialException"))
          /\ UNCHANGED <<wire, events>>
       \/ /\ port = "open"               \* the write fails
          /\ events < MaxEvents
          /\ events' = events + 1
          /\ got' = [got EXCEPT ![i].kind = "ioerr"]
          /\ Raised(SendRaises("SerialException"))
          /\ UNCHANGED wire
       \/ /\ port = "open"               \* written; the meter stays silent
          /\ pc' = "sleep"
          /\ UNCHANGED <<i, call, wire, events, got>>
       \/ /\ port = "open"               \* written; the meter answers
          /\ events < MaxEvents
          /\ events' = events + 1
          /\ \E r \in DeviceReplies :
                wire' = [wire EXCEPT !.bytes = wire.bytes \o r,
                                     !.src = wire.src \cup {i}]
          /\ pc' = "sleep"
          /\ UNCHANGED <<i, call, got>>
    /\ UNCHANGED <<ctor, args, serial, port, snap, inbuf, pre, decoded>>

\* send(): time.sleep(0.1)
Sleep ==
    /\ pc = "sleep"
    /\ pc' = "read"
    /\ UNCHANGED <<ctor, args, serial, port, snap, i, call, wire, inbuf, events,
                   wlog, pre, got, decoded>>

\* The bytes the meter sent reach the receive buffer of the port.  Nothing
\* ties this to the 0.1 s the code sleeps: it can happen before or after
\* the read of the exchange that asked for them.  The line is taken to
\* deliver them no later than during the following exchange (see Read).
Deliver ==
    /\ wire.bytes # <<>>
    /\ inbuf' = [bytes |-> inbuf.bytes \o wire.bytes, src |-> inbuf.src \cup wire.src]
    /\ wire' = EmptyWire
    /\ UNCHANGED <<ctor, args, serial, port, snap, pc, i, call, events,
                   wlog, pre, got, decoded>>

\* send(): res = self.port.read(self.port.in_waiting); return bytearray(res)
\* followed by the rest of the loop body of read_data for this entry.
Read ==
    /\ pc = "read"
    /\ ~wire.late
    /\ wire' = IF wire.bytes # <<>> THEN [wire EXCEPT !.late = TRUE] ELSE wire
    /\ \/ /\ events < MaxEvents           \* the read fails
          /\ events' = events + 1
          /\ got' = [got EXCEPT ![i].kind = "ioerr"]
          /\ Raised(SendRaises("SerialException"))
          /\ UNCHANGED <<snap, inbuf, decoded>>
       \/ LET payload == inbuf.bytes
              d == Decode(snap, req[i].name, payload)
          IN  /\ inbuf' = EmptyBuf
              /\ snap' = d.snap
              /\ got' = [got EXCEPT ![i] = [kind |-> "read", bytes |-> payload,
                                            src |-> inbuf.src, out |-> d.out]]
              /\ decoded' = IF d.out = "ok" THEN decoded \cup {i} ELSE decoded
              /\ IF d.out \in {"noreply", "short", "ok"}
                 THEN Continue
                 ELSE Raised(d.out)
              /\ UNCHANGED events
    /\ UNCHANGED <<ctor, args, serial, port, wlog, pre>>

----------------------------------------------------------------------------
\* Specifications

\* A session created with the default arguments, before its first read_data.
Init ==
    /\ ctor = "ok"
    /\ args = DefaultArgs
    /\ serial = <<[parity |-> "N", bytesize |-> 8, stopbits |-> 1]>>
    /\ port = "open"
    /\ snap = [f \in Fields |-> FieldDefault]
    /\ pc = "idle"
    /\ i = 1
    /\ call = "none"
    /\ wire = EmptyWire
    /\ inbuf = EmptyBuf
    /\ events = 0
    /\ wlog = <<>>
    /\ pre = [f \in Fields |-> FieldDefault]
    /\ got = [k \in Entries |-> NotYet]
    /\ decoded = {}

Next == StartPass \/ Write \/ Sleep \/ Deliver \/ Read \/ Close

Spec == Init /\ [][Next]_vars

----------------------------------------------------------------------------
\* The constructor on its own: every way of calling EnergyMeter(...)

ParityInputs == {<<"N">>, <<"E">>, <<"O">>, <<"e">>, <<"X">>, <<"e","v","e","n">>, <<>>}
BytesizeInputs == 4..9
StopbitsInputs == 0..3

InitCtor ==
    /\ ctor = "none"
    /\ args = NoArgs
    /\ serial = <<>>
    /\ port = "None"
    /\ snap = [f \in Fields |-> FieldDefault]
    /\ pc = "idle"
    /\ i = 1
    /\ call = "none"
    /\ wire = EmptyWire
    /\ inbuf = EmptyBuf
    /\ events = 0
    /\ wlog = <<>>
    /\ pre = [f \in Fields |-> FieldDefault]
    /\ got = [k \in Entries |-> NotYet]
    /\ decoded = {}

NextCtor ==
    \E parity \in ParityInputs, bytesize \in BytesizeInputs,
       stopbits \in StopbitsInputs, opens \in BOOLEAN :
        Create(parity, bytesize, stopbits, opens)

CtorSpec == InitCtor /\ [][NextCtor]_vars

----------------------------------------------------------------------------
\* One exchange on its own: read_data has reached entry i without an answer
\* to any earlier request, and the read of entry i finds the bytes of
\* DecodeInputs in the receive buffer.

ByteVals == {0, 1, 100, 127, 128, 255}

\* 4-byte responses: echo byte 0, then three data bytes
Short4 == {<<0, b1, b2, b3>> : b1 \in ByteVals, b2 \in ByteVals, b3 \in ByteVals}

\* 13-byte responses: bytes 1..4 and 9..12 carry the two counters
Long13 ==
    {<<0, a1, a2, a3, a4, 170, 170, 170, 170, r1, r2, r3, r4>> :
        a1 \in {0, 1, 255}, a2 \in {0, 1, 255}, a3 \in {0, 1, 255}, a4 \in {0, 1, 255},
        r1 \in {2, 128}, r2 \in {2, 128}, r3 \in {2, 128}, r4 \in {2, 128}}

DecodeInputs == Short4 \cup Long13 \cup {Ramp(3), Ramp(12)}

\* the fields after a read_data call in which every entry decoded Ramp(13):
\* each field is written by at most one entry
AnsweredSnap ==
    LET fresh == [f \in Fields |-> FieldDefault]
        after(k) == Decode(fresh, req[k].name, Ramp(13)).snap
    IN  [f \in Fields |->
            IF \E k \in Entries : after(k)[f] # FieldDefault
            THEN after(CHOOSE k \in Entries : after(k)[f] # FieldDefault)[f]
            ELSE FieldDefault]

\* the fields left by an earlier read_data call: none, or one that the
\* meter answered throughout
EarlierSnaps == {[f \in Fields |-> FieldDefault], AnsweredSnap}

InitDecode ==
    /\ ctor = "ok"
    /\ args = DefaultArgs
    /\ serial = <<[parity |-> "N", bytesize |-> 8, stopbits |-> 1]>>
    /\ port = "open"
    /\ snap \in EarlierSnaps
    /\ pre = snap
    /\ pc = "read"
    /\ i \in Entries
    /\ call = "running"
    /\ wire = EmptyWire
    /\ \E b \in DecodeInputs : inbuf = [bytes |-> b, src |-> {i}]
    /\ events = 0
    /\ wlog = [k \in 1..i |-> req[k].frame]
    /\ got = [k \in Entries |->
                IF k < i
                THEN [kind |-> "read", bytes |-> <<>>, src |-> {}, out |-> "noreply"]
                ELSE NotYet]
    /\ decoded = IF snap = [f \in Fields |-> FieldDefault] THEN {} ELSE Entries

NextDecode == Read

DecodeSpec == InitDecode /\ [][NextDecode]_vars

----------------------------------------------------------------------------
\* Vocabulary of the properties

\* the properties that belong to a parameter
Owned(param) ==
    IF param = N_Energy THEN {"energy_act", "energy_react"}
    ELSE IF param = N_TotalPowerActive THEN {"pwr_act"}
    ELSE IF param = N_PowerActiveL1 THEN {"pwr_aL1"}
    ELSE IF param = N_PowerActiveL2 THEN {"pwr_aL2"}
    ELSE IF param = N_PowerActiveL3 THEN {"pwr_aL3"}
    ELSE IF param = N_TotalPowerReactive THEN {"pwr_react"}
    ELSE IF param = N_PowerReactiveL1 THEN {"pwr_rL1"}
    ELSE IF param = N_PowerReactiveL2 THEN {"pwr_rL2"}
    ELSE IF param = N_PowerReactiveL3 THEN {"pwr_rL3"}
    ELSE IF param = N_TotalPowerSeem THEN {"pwr_seem"}
    ELSE IF param = N_PowerSeemL1 THEN {"pwr_sL1"}
    ELSE IF param = N_PowerSeemL2 THEN {"pwr_sL2"}
    ELSE IF param = N_PowerSeemL3 THEN {"pwr_sL3"}
    ELSE IF param = N_VoltageL1 THEN {"voltageL1"}
    ELSE IF param = N_VoltageL2 THEN {"voltageL2"}
    ELSE IF param = N_VoltageL3 THEN {"voltageL3"}
    ELSE IF param = N_CurrentL1 THEN {"currentL1"}
    ELSE IF param = N_CurrentL2 THEN {"currentL2"}
    ELSE IF param = N_CurrentL3 THEN {"currentL3"}
    ELSE IF param = N_CosF THEN {"cosf"}
    ELSE {}

\* the minimum length of a response that is decoded
RuleMinLen(param) == IF param = N_Energy THEN 13 ELSE 4

\* the same two, by catalogue index
OwnedOf == [k \in Entries |-> Owned(req[k].name)]
RuleMinLenOf == [k \in Entries |-> RuleMinLen(req[k].name)]
NameOf == [k \in Entries |-> req[k].name]

PowerParams ==
    {N_TotalPowerActive, N_PowerActiveL1, N_PowerActiveL2, N_PowerActiveL3,
     N_TotalPowerReactive, N_PowerReactiveL1, N_PowerReactiveL2, N_PowerReactiveL3,
     N_TotalPowerSeem, N_PowerSeemL1, N_PowerSeemL2, N_PowerSeemL3}

\* entry k was exchanged in the latest read_data call and its read returned
Answered(k) == got[k].kind = "read"

\* bytes lo, hi as a signed 16-bit little-endian integer
Signed16(lo, hi) ==
    IF lo + 256 * hi >= 32768 THEN lo + 256 * hi - 65536 ELSE lo + 256 * hi

\* the integer zero
Zero == [ty |-> "int", hi |-> 0, lo |-> 0, den |-> 1]

----------------------------------------------------------------------------
\* C1: in a read_data call, every property of a parameter whose response
\* was empty or shorter than 13 bytes (Energy) or 4 bytes (the others) has
\* the value it had when the call began, and every property of a parameter
\* whose response was long enough has the value decoded from that response.
C1_PartialFailure ==
    \A k \in Entries :
        Answered(k) =>
            \A p \in OwnedOf[k] :
                IF Len(got[k].bytes) < RuleMinLenOf[k]
                THEN Get(snap, p) = Get(pre, p)
                ELSE Get(snap, p) = Get(Decode(pre, NameOf[k], got[k].bytes).snap, p)

\* a finished call in which one parameter got nothing and kept its value
\* while another was decoded to a new value
C1_Witness ==
    /\ call = "returned"
    /\ \E j \in Entries, k \in Entries :
          /\ j # k
          /\ Answered(j) /\ got[j].bytes = <<>> /\ OwnedOf[j] # {}
          /\ Answered(k) /\ Len(got[k].bytes) >= RuleMinLenOf[k]
          /\ \E p \in OwnedOf[k] : Get(snap, p) # Get(pre, p)

\* C2: an I/O error in the write or the read of one entry never leaves
\* read_data, leaves the properties of that entry as they were, and every
\* later entry is still exchanged.
C2_IoErrorIsolated ==
    /\ call # "raised"
    /\ \A k \in Entries :
          got[k].kind = "ioerr" =>
              /\ \A p \in OwnedOf[k] : Get(snap, p) = Get(pre, p)
              /\ call = "running" => i > k
              /\ call = "returned" =>
                    /\ \A j \in (k + 1)..Len(req) : got[j].kind # "none"
                    /\ Len(wlog) = Len(req)

\* a finished call on an open port in which an entry other than the last
\* failed with an I/O error
C2_Witness ==
    /\ call = "returned"
    /\ port = "open"
    /\ \E k \in 1..(Len(req) - 1) :
          /\ got[k].kind = "ioerr"
          /\ Answered(k + 1)

\* C3: a step changes a property only if it is the read of a parameter that
\* owns the property and the response is long enough to be decoded; so the
\* exchanges of ID, Admin and Frequency change nothing, and nothing is reset.
C3_OnlyOwnDecode ==
    [][ /\ \A p \in Properties :
              Get(snap', p) # Get(snap, p) =>
                  /\ pc = "read"
                  /\ p \in OwnedOf[i]
                  /\ got'[i].kind = "read"
                  /\ Len(got'[i].bytes) >= RuleMinLenOf[i]
        /\ snap' # snap => \E p \in Properties : Get(snap', p) # Get(snap, p)
      ]_vars

\* a parameter was decoded to a new value and every other property is as
\* it was when the call began
C3_Witness ==
    \E k \in Entries :
        /\ Answered(k) /\ got[k].out = "ok"
        /\ \E p \in OwnedOf[k] : Get(snap, p) # Get(pre, p)
        /\ \A p \in Properties \ OwnedOf[k] : Get(snap, p) = Get(pre, p)

\* C4 as stated: the properties of a parameter that was never decoded are
\* distinguishable from the ones a decode of an all-zero response gives.
C4_AbsentIsNotZero ==
    ctor = "ok" =>
        \A k \in Entries \ decoded :
            \A p \in OwnedOf[k] :
                Get(snap, p) #
                    Get(Decode(snap, NameOf[k], Zeros(RuleMinLenOf[k])).snap, p)

\* C4 amended: no property is ever absent.  A property whose parameter was
\* never decoded in the session holds the integer 0, and so does
\* energy_act or energy_react decoded from all-zero counter bytes.
C4_NeverDecodedIsZero ==
    /\ \A p \in Properties :
          (\A k \in decoded : p \notin OwnedOf[k]) => Get(snap, p) = Zero
    /\ \A p \in {"energy_act", "energy_react"} :
          Get(Decode(snap, N_Energy, Zeros(13)).snap, p) = Zero

\* Energy was decoded from an all-zero response while other parameters
\* were never decoded: their properties cannot be told apart
C4_Witness ==
    /\ call = "returned"
    /\ decoded # {}
    /\ \E k \in decoded :
          /\ NameOf[k] = N_Energy
          /\ got[k].bytes = Zeros(13)
          /\ Get(snap, "energy_act") = Get(snap, "voltageL1")
    /\ \E k \in Entries \ decoded : NameOf[k] = N_VoltageL1

\* C5 as stated: a call of the constructor with data bits outside
\* {5,6,7,8}, stop bits outside {1,2} or a parity other than none, even or
\* odd fails, and serial.Serial is not called.
C5_InvalidConfigFails ==
    (/\ ctor # "none"
     /\ \/ args.bytesize \notin {5, 6, 7, 8}
        \/ args.stopbits \notin {1, 2}
        \/ Upper(args.parity) \notin {<<"N">>, <<"E">>, <<"O">>})
    => (ctor = "ConnectionError" /\ serial = <<>> /\ port = "None")

\* C5 amended: a call with data bits outside {5,6,7,8} or stop bits outside
\* {1,2} fails with ConnectionError before serial.Serial is called and no
\* port exists afterwards; a parity other than N, E or O (in either case)
\* does not fail: the port is opened with parity none.
C5_InvalidBitsFail ==
    ctor # "none" =>
        IF args.bytesize \notin {5, 6, 7, 8} \/ args.stopbits \notin {1, 2}
        THEN ctor = "ConnectionError" /\ serial = <<>> /\ port = "None"
        ELSE /\ Len(serial) = 1
             /\ serial[1].bytesize = args.bytesize
             /\ serial[1].stopbits = args.stopbits
             /\ Upper(args.parity) \notin {<<"N">>, <<"E">>, <<"O">>}
                   => serial[1].parity = "N"
             /\ Upper(args.parity) = <<"E">> => serial[1].parity = "E"
             /\ Upper(args.parity) = <<"O">> => serial[1].parity = "O"

\* the constructor was called with 8 data bits and 3 stop bits and failed
\* without calling serial.Serial
C5_Witness ==
    /\ ctor = "ConnectionError"
    /\ args.bytesize = 8
    /\ args.stopbits = 3
    /\ serial = <<>>

\* C6: for each of the 12 power parameters and every response of at least
\* 4 bytes, the property is a float with 100 * value = 50 * v, where v is
\* bytes 2..3 as a signed 16-bit little-endian integer; for
\* TotalPowerActive alone 100 * value = 500 * v.
C6_PowerScale ==
    \A k \in Entries :
        (Answered(k) /\ NameOf[k] \in PowerParams /\ Len(got[k].bytes) >= 4) =>
            \A p \in OwnedOf[k] :
                LET v == Signed16(got[k].bytes[3], got[k].bytes[4])
                    x == Get(snap, p)
                IN  /\ x.ty = "float"
                    /\ x.den > 0
                    /\ 100 * Num(x) =
                          (IF NameOf[k] = N_TotalPowerActive THEN 500 ELSE 50) * v * x.den

\* bytes 64 00 decoded to 500 for TotalPowerActive
C6_Witness ==
    \E k \in Entries :
        /\ Answered(k) /\ NameOf[k] = N_TotalPowerActive
        /\ Len(got[k].bytes) = 4
        /\ got[k].bytes[3] = 100 /\ got[k].bytes[4] = 0
        /\ Num(Get(snap, "pwr_act")) = 500 * Get(snap, "pwr_act").den

\* C7: for every Energy response b of at least 13 bytes, energy_act is the
\* integer 50 * U(b[2], b[1], b[4], b[3]) and energy_react is the integer
\* U(b[10], b[9], b[12], b[11]), where U(w, x, y, z) = w*2^24 + x*2^16 +
\* y*2^8 + z (b counted from 0); the bytes the read returned are unchanged.
C7_EnergyDecode ==
    \A k \in Entries :
        (Answered(k) /\ NameOf[k] = N_Energy /\ Len(got[k].bytes) >= 13) =>
            LET b == got[k].bytes      \* b[n] counted from 0 is b[n + 1] here
                act == Get(snap, "energy_act")
                react == Get(snap, "energy_react")
                actHi == b[3] * 256 + b[2]
                actLo == b[5] * 256 + b[4]
            IN  /\ act.ty = "int" /\ act.den = 1
                /\ act.hi = 50 * actHi + ((50 * actLo) \div 65536)
                /\ act.lo = (50 * actLo) % 65536
                /\ react.ty = "int" /\ react.den = 1
                /\ react.hi = b[11] * 256 + b[10]
                /\ react.lo = b[13] * 256 + b[12]

\* active bytes 01 00 00 00 decoded to 3276800 = 50 * 2^16
C7_Witness ==
    \E k \in Entries :
        /\ Answered(k) /\ NameOf[k] = N_Energy
        /\ Len(got[k].bytes) = 13
        /\ SubSeq(got[k].bytes, 2, 5) = <<1, 0, 0, 0>>
        /\ Get(snap, "energy_act") = [ty |-> "int", hi |-> 50, lo |-> 0, den |-> 1]
        /\ Get(snap, "energy_react") # Get(pre, "energy_react")

\* C8 as stated: for every CosF response of at least 4 bytes the power
\* factor lies in [0, 1.000].
C8_CosFAtMostOne ==
    \A k \in Entries :
        (Answered(k) /\ NameOf[k] = N_CosF /\ Len(got[k].bytes) >= 4) =>
            LET x == Get(snap, "cosf")
            IN  0 <= Num(x) /\ Num(x) <= x.den

\* C8 amended: for every CosF response b of at least 4 bytes the power
\* factor is (((b[1] & 0x3F) << 16) | (b[3] << 8) | b[2]) / 1000, which lies
\* in [0, 4194.303] whatever the top two bits of b[1] are.
C8_CosFRange ==
    \A k \in Entries :
        (Answered(k) /\ NameOf[k] = N_CosF /\ Len(got[k].bytes) >= 4) =>
            LET b == got[k].bytes      \* b[n] counted from 0 is b[n + 1] here
                x == Get(snap, "cosf")
            IN  /\ x.ty = "float" /\ x.den = 1000
                /\ Num(x) = (b[2] % 64) * 65536 + b[4] * 256 + b[3]
                /\ 0 <= Num(x) /\ Num(x) <= 4194303

\* a CosF response with both reserved bits set, decoded to a value above 1
C8_Witness ==
    \E k \in Entries :
        /\ Answered(k) /\ NameOf[k] = N_CosF
        /\ Len(got[k].bytes) = 4
        /\ got[k].bytes[2] = 255
        /\ Num(Get(snap, "cosf")) > 1000

\* the measure that every step of a running read_data call increases
Progress == 3 * i + (IF pc = "write" THEN 0 ELSE IF pc = "sleep" THEN 1 ELSE 2)

\* C9: a read_data call hands the frame of every catalogue entry to the
\* port once, in catalogue order, and returns after the last entry:
\* the frames written so far are always the frames of the first entries,
\* every entry reached has had its exchange, no exception leaves the call,
\* and each step of the call moves on (so the call takes at most
\* 3 * 23 steps).
C9_OnePassInOrder ==
    /\ [](/\ call # "raised"
          /\ call = "running" =>
                /\ pc # "idle"
                /\ wlog = [k \in 1..(IF pc = "write" THEN i - 1 ELSE i) |-> req[k].frame]
                /\ \A k \in Entries : (got[k].kind # "none") <=> (k < i)
          /\ call = "returned" =>
                /\ pc = "idle"
                /\ wlog = [k \in Entries |-> req[k].frame]
                /\ \A k \in Entries : got[k].kind # "none")
    /\ [][(call = "running" /\ <<pc, i, call>>' # <<pc, i, call>>) =>
              \/ call' = "running" /\ Progress' > Progress
              \/ call' = "returned" /\ i = Len(req)]_vars

\* a call that returned after empty responses and one non-empty response
C9_Witness ==
    /\ call = "returned"
    /\ \E k \in Entries : got[k].kind = "read" /\ got[k].bytes = <<>>
    /\ \E k \in Entries : got[k].kind = "read" /\ got[k].out \in {"short", "ok"}
                          /\ got[k].bytes # <<>>

\* C10: the bytes decoded into the properties of a parameter are never
\* bytes that the meter sent in reply to the request of another parameter.
C10_NoForeignBytes ==
    \A k \in Entries :
        (/\ Answered(k) /\ got[k].out = "ok"
         /\ \E p \in OwnedOf[k] : Get(snap, p) # Get(pre, p))
        => got[k].src \subseteq {k}

====
